---- MODULE Spec2Model ----
(***************************************************************************)
(* Order service: saga coordinator (OrderService.CreateOrder and the       *)
(* SagaOrchestrator payment handlers), inventory coordinator               *)
(* (InventoryClient over the Redis Lua scripts and the Postgres store)     *)
(* and the idempotency layer (orders.idempotency_key, processed_events).   *)
(*                                                                         *)
(* Every database statement and every Redis script call is one atomic      *)
(* step; a request, a handler execution or a mirror goroutine may be       *)
(* suspended between any two of its calls.                                 *)
(***************************************************************************)
EXTENDS Integers, Sequences, FiniteSets, TLC

\* ------------------------------------------------------------------ bounds
NumProducts == 2      \* catalog rows (products / inventory)
MaxStock    == 1      \* seeded inventory.available ranges over 0..MaxStock
MaxQty      == 2      \* item quantity ranges over 1..MaxQty
MaxItems    == 2      \* items per request
MaxReqs     == 2      \* SubmitOrder calls
NumKeys     == 1      \* client-supplied idempotency keys
MaxEvents   == 2      \* payment-result event ids
MaxHandlers == 3      \* payment-result handler executions (deliveries)
MaxRedisErrs == 2     \* Redis calls that return an error
MaxCrashes  == 1      \* handler executions cut short by a crash of the process
NumPartitions == 2    \* partitions of the order-events topic
MaxRestarts == 1      \* restarts of the consumer group's reader
NumOrders   == 2      \* orders whose events are published to the topic

Products   == 1..NumProducts
ProductIds == 1..(NumProducts + 1)     \* NumProducts + 1 is not in the catalog
Qtys       == 1..MaxQty
Reqs       == 1..MaxReqs
Keys       == 1..NumKeys
NoKey      == 0                        \* idempotency_key omitted ("")
EventIds   == 1..MaxEvents
Handlers   == 1..MaxHandlers
Partitions == 1..NumPartitions
OrderIds   == 1..NumOrders

\* ------------------------------------------------------------------ state
VARIABLES
    cache,      \* Redis hash inventory:<id> -> [available, reserved]
    inv,        \* table inventory: product_id -> [available, reserved]
    stock0,     \* the seeded stock (never changes)
    orders,     \* table orders: id -> [key, status, total]
    orderItems, \* table order_items: order id -> rows [product, qty, price]
    ledger,     \* table processed_events: event id -> number of rows
    topic,      \* order id -> event types published under key order-<id>
    req,        \* SubmitOrder calls: position and locals
    mirrors,    \* pending "sync reservation to DB" goroutines [r, i, product, qty]
    events,     \* payment-result events published: id -> [type, order]
    hnd,        \* payment-result handler executions: position and locals
    redisErrs,  \* Redis calls that have returned an error so far
    applied,    \* order id -> per item, the Commit/Release calls of handlers
    kafka,      \* the topic's partitions and the consumer group's reader
    main        \* position of main() in its shutdown sequence

vars == <<cache, inv, stock0, kafka, main, orders, orderItems, ledger, topic, req,
          mirrors, events, hnd, redisErrs, applied>>

\* ------------------------------------------------------------------ catalog
\* migrations/002_seed_data.sql: price in cents of the seeded products
Price(p) == IF p = 1 THEN 1500000 ELSE 1200000

Item(p, q) == [product |-> p, qty |-> q]
Items == {Item(p, q) : p \in ProductIds, q \in Qtys}
ItemLists == UNION {[1..n -> Items] : n \in 1..MaxItems}

\* ------------------------------------------------------------------ Redis scripts
\* a reserve that does not look at available
ReserveUnchecked(h, q) ==
    [ret |-> 1, h |-> [available |-> h.available - q, reserved |-> h.reserved + q]]

\* reserve_stock.lua
LuaReserve(h, q) ==
    IF h.available >= q
    THEN [ret |-> 1, h |-> [available |-> h.available - q, reserved |-> h.reserved + q]]
    ELSE [ret |-> 0, h |-> h]

\* a release that forgets the reserved counter
ReleaseAvailableOnly(h, q) ==
    [ret |-> 1, h |-> [available |-> h.available + q, reserved |-> h.reserved]]

\* release_stock.lua
LuaRelease(h, q) ==
    [ret |-> 1, h |-> [available |-> h.available + q, reserved |-> h.reserved - q]]

\* a commit that gives the quantity back to available
CommitReturnsStock(h, q) ==
    [ret |-> 1, h |-> [available |-> h.available + q, reserved |-> h.reserved - q]]

\* a commit that does not look at reserved
CommitUnchecked(h, q) ==
    [ret |-> 1, h |-> [available |-> h.available, reserved |-> h.reserved - q]]

\* commit_stock.lua
LuaCommit(h, q) ==
    IF h.reserved >= q
    THEN [ret |-> 1, h |-> [available |-> h.available, reserved |-> h.reserved - q]]
    ELSE [ret |-> 0, h |-> h]

\* ------------------------------------------------------------------ store
\* Store.ReserveStockTx: the error of an insufficient row,
\* fmt.Errorf("insufficient stock: available=%d, requested=%d", ...)
InsufficientStockError(a, q) ==
    "insufficient stock: available=" \o ToString(a) \o ", requested=" \o ToString(q)

\* Store.ReserveStockTx: UPDATE inventory SET available = available - $1,
\* reserved = reserved + $1
ReserveUpdate(row, q) ==
    [available |-> row.available - q, reserved |-> row.reserved + q]

\* Store.ReserveStockTx as one step: SELECT ... FOR UPDATE, check, UPDATE,
\* commit; err = "" stands for a nil error
ReserveStockTx(row, q) ==
    IF row.available < q
    THEN [err |-> InsufficientStockError(row.available, q), row |-> row]
    ELSE [err |-> "", row |-> ReserveUpdate(row, q)]

\* a fallback that reports success whatever the transaction did
FallbackAlwaysOk(err) == [ok |-> TRUE, err |-> ""]

\* InventoryClient.reserveStockDB: (ok, err) from the error of ReserveStockTx
reserveStockDBResult(err) ==
    IF err = "" THEN [ok |-> TRUE, err |-> ""]
    ELSE IF err = "insufficient stock" THEN [ok |-> FALSE, err |-> ""]
    ELSE [ok |-> FALSE, err |-> err]

\* a store release that changes nothing
ReleaseKeepsRow(row, q) == row

\* Store.ReleaseStock
StoreReleaseStock(row, q) ==
    [available |-> row.available + q, reserved |-> row.reserved - q]

\* a store commit that changes nothing
CommitKeepsRow(row, q) == row

\* Store.CommitStock
StoreCommitStock(row, q) ==
    [available |-> row.available, reserved |-> row.reserved - q]

\* the lookup with its WHERE idempotency_key = $1 dropped
GetOrderIgnoringKey(tbl, key) == IF Len(tbl) > 0 THEN 1 ELSE 0

\* Store.GetOrderByIdempotencyKey: the order id, or 0 for sql.ErrNoRows
GetOrderByIdempotencyKey(tbl, key) ==
    IF \E o \in 1..Len(tbl) : tbl[o].key = key
    THEN CHOOSE o \in 1..Len(tbl) : tbl[o].key = key
    ELSE 0

\* the orders table without the UNIQUE constraint
NoUniqueConstraint(tbl, key) == FALSE

\* orders.idempotency_key TEXT UNIQUE: does the insert violate the constraint
UniqueViolation(tbl, key) == \E o \in 1..Len(tbl) : tbl[o].key = key

\* Store.UpdateOrderStatus: unconditional UPDATE ... WHERE id = $2
UpdateOrderStatus(tbl, o, status) ==
    IF o \in 1..Len(tbl) THEN [tbl EXCEPT ![o].status = status] ELSE tbl

\* Store.GetProductsByIDs: the rows of SELECT ... WHERE id IN (ids)
GetProductsByIDs(items) == {items[i].product : i \in 1..Len(items)} \cap Products

\* OrderService.validateOrderItems
validateOrderItems(items) == Cardinality(GetProductsByIDs(items)) = Len(items)

RECURSIVE SumTotal(_, _)
SumTotal(items, n) ==
    IF n = 0 THEN 0 ELSE SumTotal(items, n - 1) + Price(items[n].product) * items[n].qty

\* a total that prices the first item only
TotalOfFirstItem(items) == Price(items[1].product) * items[1].qty

\* OrderService.calculateTotal
calculateTotal(items) == SumTotal(items, Len(items))

\* a failed reservation that compensates nothing
CompensateNothing(items, failed) == {}

\* OrderService.compensateReservations: the items it releases, given the
\* request's items and the index of the item whose reservation failed
compensateReservations(items, failed) == 1..Len(items)

\* ------------------------------------------------------------------ initial state
idleReq == [pc |-> "idle", key |-> NoKey, items |-> <<>>, oid |-> 0,
            i |-> 0, j |-> 0, denied |-> FALSE, before |-> <<>>, ctx |-> "",
            resp |-> [kind |-> "none", oid |-> 0, status |-> ""]]
idleHnd == [pc |-> "idle", ev |-> 0, i |-> 0, ret |-> "none"]
NoEvent == [type |-> "none", order |-> 0]

\* the topic before anything is published, and a reader that has fetched
\* nothing: per partition the log, the reader's position and the group's
\* committed offset; cur is the partition of the message being handled (0:
\* none), handled the (partition, offset, result) of every handler return,
\* seen the messages the reader has fetched, late those it fetched before an
\* earlier event of the same order
NoMessages == [log       |-> [p \in Partitions |-> <<>>],
               pos       |-> [p \in Partitions |-> 0],
               committed |-> [p \in Partitions |-> 0],
               cur       |-> 0,
               handled   |-> {},
               seen      |-> {},
               late      |-> {},
               restarts  |-> 0]

Init ==
    /\ stock0 \in [Products -> 0..MaxStock]
    /\ inv = [p \in Products |-> [available |-> stock0[p], reserved |-> 0]]
    /\ cache = inv                             \* SyncInventoryToRedis at startup
    /\ orders = <<>>
    /\ orderItems = <<>>
    /\ ledger = [e \in EventIds |-> 0]
    /\ topic = <<>>
    /\ req = [r \in Reqs |-> idleReq]
    /\ mirrors = {}
    /\ events = [e \in EventIds |-> NoEvent]
    /\ hnd = [h \in Handlers |-> idleHnd]
    /\ redisErrs = 0
    /\ applied = <<>>
    /\ kafka = NoMessages
    /\ main = "serving"

\* ------------------------------------------------------------------ SubmitOrder
\* uuid.New().String() for a request without idempotency key
uuid(r) == NumKeys + r

Respond(kind, o, status) == [kind |-> kind, oid |-> o, status |-> status]

\* CreateOrder, lines 205-227: the request arrives, the idempotency lookup and,
\* when no order has the key, the validation of the items against the catalog
CreateOrder(r, k, items) ==
    /\ req[r].pc = "idle"
    /\ IF r = 1 THEN TRUE ELSE req[r - 1].pc # "idle"
    /\ LET key == IF k = NoKey THEN uuid(r) ELSE k
           existing == GetOrderByIdempotencyKey(orders, key)
       IN  req' = [req EXCEPT ![r] =
                IF existing # 0
                THEN [@ EXCEPT !.pc = "done", !.key = key, !.items = items,
                               !.resp = Respond("ok", existing, orders[existing].status)]
                ELSE IF ~validateOrderItems(items)
                THEN [@ EXCEPT !.pc = "done", !.key = key, !.items = items,
                               !.resp = Respond("err", 0, "invalid_items")]
                ELSE [@ EXCEPT !.pc = "insert", !.key = key, !.items = items]]
    /\ UNCHANGED <<cache, inv, stock0, kafka, main, orders, orderItems, ledger, topic,
                   mirrors, events, hnd, redisErrs, applied>>

\* Store.CreateOrder: INSERT INTO orders ... RETURNING id
StoreCreateOrder(r) ==
    /\ req[r].pc = "insert"
    /\ IF UniqueViolation(orders, req[r].key)
       THEN /\ req' = [req EXCEPT ![r].pc = "done",
                                  ![r].resp = Respond("err", 0, "db_error")]
            /\ UNCHANGED <<orders, orderItems, topic, applied>>
       ELSE /\ orders' = Append(orders, [key |-> req[r].key, status |-> "CREATED",
                                          total |-> calculateTotal(req[r].items)])
            /\ orderItems' = Append(orderItems, <<>>)
            /\ topic' = Append(topic, <<>>)
            /\ applied' = Append(applied, [n \in 1..Len(req[r].items) |-> 0])
            /\ req' = [req EXCEPT ![r].pc = "items", ![r].oid = Len(orders) + 1,
                                  ![r].i = 1]
    /\ UNCHANGED <<cache, inv, stock0, kafka, main, ledger, mirrors, events, hnd, redisErrs>>

\* Store.CreateOrderItem for item i of the request
CreateOrderItem(r) ==
    /\ req[r].pc = "items"
    /\ LET it == req[r].items[req[r].i]
           o  == req[r].oid
       IN  orderItems' = [orderItems EXCEPT ![o] =
                Append(@, [product |-> it.product, qty |-> it.qty,
                           price |-> Price(it.product)])]
    /\ req' = [req EXCEPT ![r] =
                IF @.i = Len(@.items) THEN [@ EXCEPT !.pc = "pubCreated"]
                                      ELSE [@ EXCEPT !.i = @ + 1]]
    /\ UNCHANGED <<cache, inv, stock0, kafka, main, orders, ledger, topic, mirrors, events,
                   hnd, redisErrs, applied>>

\* EventPublisher.PublishOrderCreated
PublishOrderCreated(r) ==
    /\ req[r].pc = "pubCreated"
    /\ topic' = [topic EXCEPT ![req[r].oid] = Append(@, "OrderCreated")]
    /\ req' = [req EXCEPT ![r].pc = "reserve", ![r].i = 1]
    /\ UNCHANGED <<cache, inv, stock0, kafka, main, orders, orderItems, ledger, mirrors,
                   events, hnd, redisErrs, applied>>

\* reserveInventory: where the loop goes after item i was reserved
AfterReserved(q) ==
    IF q.i = Len(q.items) THEN [q EXCEPT !.pc = "setReserved"]
                          ELSE [q EXCEPT !.i = @ + 1]

\* compensateReservations: the loop position after item j (0: the loop starts)
AfterCompensated(q) ==
    LET rest == {n \in compensateReservations(q.items, q.i) : n > q.j}
    IN  IF rest = {} THEN [q EXCEPT !.pc = "setFailed"]
        ELSE [q EXCEPT !.pc = "compCache",
                       !.j = CHOOSE n \in rest : \A x \in rest : n <= x]

\* a loop that takes a denied item for a reserved one
DeniedIsIgnored(q) == AfterReserved(q)

\* reserveInventory: item i was denied (ok = false): compensateReservations
\* is called, and the error goes back to CreateOrder
AfterDenied(q) == AfterCompensated([q EXCEPT !.denied = TRUE, !.j = 0])

\* reserveInventory: ReserveStock returned an error for item i:
\* compensateReservations is called, and the error goes back to CreateOrder
AfterError(q) == AfterCompensated([q EXCEPT !.j = 0])

\* InventoryClient.ReserveStock, fast path: the Redis script ran
RedisReserveStock(r) ==
    /\ req[r].pc = "reserve"
    /\ LET it  == req[r].items[req[r].i]
           res == LuaReserve(cache[it.product], it.qty)
       IN  /\ cache' = [cache EXCEPT ![it.product] = res.h]
           /\ IF res.ret = 1
              THEN /\ mirrors' = mirrors \cup
                        {[r |-> r, i |-> req[r].i, product |-> it.product, qty |-> it.qty]}
                   /\ req' = [req EXCEPT ![r] = AfterReserved(@)]
              ELSE /\ mirrors' = mirrors
                   /\ req' = [req EXCEPT ![r] = AfterDenied(@)]
    /\ UNCHANGED <<inv, stock0, kafka, main, orders, orderItems, ledger, topic, events, hnd,
                   redisErrs, applied>>

\* InventoryClient.ReserveStock: the Redis call returned an error
RedisReserveError(r) ==
    /\ req[r].pc = "reserve"
    /\ redisErrs < MaxRedisErrs
    /\ redisErrs' = redisErrs + 1
    /\ req' = [req EXCEPT ![r].pc = "reserveDB"]
    /\ UNCHANGED <<cache, inv, stock0, kafka, main, orders, orderItems, ledger, topic,
                   mirrors, events, hnd, applied>>

\* InventoryClient.reserveStockDB: the fallback decides on the inventory row
reserveStockDB(r) ==
    /\ req[r].pc = "reserveDB"
    /\ LET it  == req[r].items[req[r].i]
           res == ReserveStockTx(inv[it.product], it.qty)
           ret == reserveStockDBResult(res.err)
       IN  /\ inv' = [inv EXCEPT ![it.product] = res.row]
           /\ req' = [req EXCEPT ![r] = IF ret.ok THEN AfterReserved(@)
                                        ELSE IF ret.err = "" THEN AfterDenied(@)
                                        ELSE AfterError(@)]
    /\ UNCHANGED <<cache, stock0, kafka, main, orders, orderItems, ledger, topic, mirrors,
                   events, hnd, redisErrs, applied>>

\* a goroutine that makes its call with the context of request r
RequestContext(r) == req[r].ctx

\* the context of the goroutine of InventoryClient.ReserveStock:
\* context.WithTimeout(context.Background(), 5*time.Second), which no
\* request cancels ("" is a context that is not cancelled)
MirrorContext(r) == ""

\* The goroutine of InventoryClient.ReserveStock: Store.ReserveStockTx under
\* its own context; an error ("insufficient stock") is only logged
MirrorReserve(m) ==
    /\ m \in mirrors
    /\ inv' = IF MirrorContext(m.r) = ""
              THEN [inv EXCEPT ![m.product] = ReserveStockTx(@, m.qty).row]
              ELSE inv
    /\ mirrors' = mirrors \ {m}
    /\ UNCHANGED <<cache, stock0, kafka, main, orders, orderItems, ledger, topic, req,
                   events, hnd, redisErrs, applied>>

\* InventoryClient.ReleaseStock for item j, Redis part (an error is logged)
CompensateRedis(r) ==
    /\ req[r].pc = "compCache"
    /\ LET it == req[r].items[req[r].j]
       IN  cache' = [cache EXCEPT ![it.product] = LuaRelease(@, it.qty).h]
    /\ req' = [req EXCEPT ![r].pc = "compDB"]
    /\ UNCHANGED <<inv, stock0, kafka, main, orders, orderItems, ledger, topic, mirrors,
                   events, hnd, redisErrs, applied>>

\* InventoryClient.ReleaseStock for item j: the Redis call returned an error,
\* which is logged; the store part follows
CompensateRedisError(r) ==
    /\ req[r].pc = "compCache"
    /\ redisErrs < MaxRedisErrs
    /\ redisErrs' = redisErrs + 1
    /\ req' = [req EXCEPT ![r].pc = "compDB"]
    /\ UNCHANGED <<cache, inv, stock0, kafka, main, orders, orderItems, ledger, topic,
                   mirrors, events, hnd, applied>>

\* InventoryClient.ReleaseStock for item j, store part
CompensateStore(r) ==
    /\ req[r].pc = "compDB"
    /\ LET it == req[r].items[req[r].j]
       IN  inv' = [inv EXCEPT ![it.product] = StoreReleaseStock(@, it.qty)]
    /\ req' = [req EXCEPT ![r] = AfterCompensated(@)]
    /\ UNCHANGED <<cache, stock0, kafka, main, orders, orderItems, ledger, topic, mirrors,
                   events, hnd, redisErrs, applied>>

\* CreateOrder, lines 284-288: status FAILED, the error goes to the caller
SetFailed(r) ==
    /\ req[r].pc = "setFailed"
    /\ orders' = UpdateOrderStatus(orders, req[r].oid, "FAILED")
    /\ req' = [req EXCEPT ![r].pc = "done",
                          ![r].resp = Respond("err", 0, "reservation_failed")]
    /\ UNCHANGED <<cache, inv, stock0, kafka, main, orderItems, ledger, topic, mirrors,
                   events, hnd, redisErrs, applied>>

\* CreateOrder, line 290: status RESERVED
SetReserved(r) ==
    /\ req[r].pc = "setReserved"
    /\ orders' = UpdateOrderStatus(orders, req[r].oid, "RESERVED")
    /\ req' = [req EXCEPT ![r].pc = "pubReserved"]
    /\ UNCHANGED <<cache, inv, stock0, kafka, main, orderItems, ledger, topic, mirrors,
                   events, hnd, redisErrs, applied>>

\* EventPublisher.PublishOrderReserved, then the response (order_id, RESERVED)
PublishOrderReserved(r) ==
    /\ req[r].pc = "pubReserved"
    /\ topic' = [topic EXCEPT ![req[r].oid] = Append(@, "OrderReserved")]
    /\ req' = [req EXCEPT ![r].pc = "done",
                          ![r].resp = Respond("ok", req[r].oid, "RESERVED")]
    /\ UNCHANGED <<cache, inv, stock0, kafka, main, orders, orderItems, ledger, mirrors,
                   events, hnd, redisErrs, applied>>

SubmitStep(r) ==
    \/ StoreCreateOrder(r)
    \/ CreateOrderItem(r)
    \/ PublishOrderCreated(r)
    \/ RedisReserveStock(r)
    \/ CompensateRedis(r)
    \/ CompensateStore(r)
    \/ SetFailed(r)
    \/ SetReserved(r)
    \/ PublishOrderReserved(r)

\* CreateOrder, lines 290-292: the UPDATE to RESERVED fails in the store; the
\* error goes to the caller, nothing is released and nothing published
SetReservedError(r) ==
    /\ req[r].pc = "setReserved"
    /\ req' = [req EXCEPT ![r].pc = "done",
                          ![r].resp = Respond("err", 0, "status_update_failed")]
    /\ UNCHANGED <<cache, inv, stock0, kafka, main, orders, orderItems, ledger, topic,
                   mirrors, events, hnd, redisErrs, applied>>

\* a Redis call of SubmitOrder returns an error
SubmitRedisError(r) ==
    \/ RedisReserveError(r)
    \/ reserveStockDB(r)
    \/ CompensateRedisError(r)

\* ------------------------------------------------------------------ payment results
\* PaymentService.ProcessPayment for one delivery of OrderReserved: the mock
\* provider decides, and PaymentSuccess or PaymentFailed is published under a
\* fresh event id
ProcessPayment(e, o, type) ==
    /\ events[e] = NoEvent
    /\ \A d \in EventIds : d < e => events[d] # NoEvent
    /\ o \in 1..Len(topic)
    /\ \E n \in 1..Len(topic[o]) : topic[o][n] = "OrderReserved"
    /\ events' = [events EXCEPT ![e] = [type |-> type, order |-> o]]
    /\ UNCHANGED <<cache, inv, stock0, kafka, main, orders, orderItems, ledger, topic, req,
                   mirrors, hnd, redisErrs, applied>>

\* a ledger check that never finds the event
NeverProcessed(l, e) == FALSE

\* Store.IsEventProcessed
IsEventProcessed(l, e) == l[e] > 0

\* Store.MarkEventProcessed: INSERT ... ON CONFLICT (event_id) DO NOTHING
MarkEventProcessed(l, e) == IF l[e] > 0 THEN l ELSE [l EXCEPT ![e] = @ + 1]

InFlight(h) == hnd[h].pc \notin {"idle", "done", "crashed"}

\* EventHandler.HandleMessage delivers event e to handler execution h, which
\* begins with the ledger check of HandlePaymentSuccess / HandlePaymentFailed
HandleMessage(h, e) ==
    /\ hnd[h].pc = "idle"
    /\ IF h = 1 THEN TRUE ELSE hnd[h - 1].pc # "idle"
    /\ events[e] # NoEvent
    /\ hnd' = [hnd EXCEPT ![h] =
            IF IsEventProcessed(ledger, e)
            THEN [@ EXCEPT !.pc = "done", !.ev = e, !.ret = "ok"]
            ELSE [@ EXCEPT !.ev = e, !.i = 1,
                           !.pc = IF events[e].type = "PaymentSuccess"
                                  THEN "paid" ELSE "relCache"]]
    /\ UNCHANGED <<cache, inv, stock0, kafka, main, orders, orderItems, ledger, topic, req,
                   mirrors, events, redisErrs, applied>>

HOrder(h) == events[hnd[h].ev].order
HItem(h)  == orderItems[HOrder(h)][hnd[h].i]

\* HandlePaymentSuccess: status PAID, then the order items are loaded
SetPaid(h) ==
    /\ hnd[h].pc = "paid"
    /\ orders' = UpdateOrderStatus(orders, HOrder(h), "PAID")
    /\ hnd' = [hnd EXCEPT ![h].pc = "commitCache"]
    /\ UNCHANGED <<cache, inv, stock0, kafka, main, orderItems, ledger, topic, req, mirrors,
                   events, redisErrs, applied>>

\* InventoryClient.CommitStock for item i, Redis part (the script's return
\* value is dropped)
CommitRedis(h) ==
    /\ hnd[h].pc = "commitCache"
    /\ cache' = [cache EXCEPT ![HItem(h).product] = LuaCommit(@, HItem(h).qty).h]
    /\ hnd' = [hnd EXCEPT ![h].pc = "commitDB"]
    /\ UNCHANGED <<inv, stock0, kafka, main, orders, orderItems, ledger, topic, req, mirrors,
                   events, redisErrs, applied>>

\* a loop that leaves after its first item
LeaveAfterFirstItem(x, n, again, next) == [x EXCEPT !.pc = next]

\* the handler's loop over the order items, after item i
AfterItem(x, n, again, next) ==
    IF x.i = n THEN [x EXCEPT !.pc = next] ELSE [x EXCEPT !.pc = again, !.i = @ + 1]

\* InventoryClient.CommitStock for item i, store part
CommitStore(h) ==
    /\ hnd[h].pc = "commitDB"
    /\ inv' = [inv EXCEPT ![HItem(h).product] = StoreCommitStock(@, HItem(h).qty)]
    /\ applied' = [applied EXCEPT ![HOrder(h)][hnd[h].i] = @ + 1]
    /\ hnd' = [hnd EXCEPT ![h] =
                  AfterItem(@, Len(orderItems[HOrder(h)]), "commitCache", "confirm")]
    /\ UNCHANGED <<cache, stock0, kafka, main, orders, orderItems, ledger, topic, req,
                   mirrors, events, redisErrs>>

\* HandlePaymentSuccess: status CONFIRMED
SetConfirmed(h) ==
    /\ hnd[h].pc = "confirm"
    /\ orders' = UpdateOrderStatus(orders, HOrder(h), "CONFIRMED")
    /\ hnd' = [hnd EXCEPT ![h].pc = "mark"]
    /\ UNCHANGED <<cache, inv, stock0, kafka, main, orderItems, ledger, topic, req, mirrors,
                   events, redisErrs, applied>>

\* InventoryClient.ReleaseStock for item i, Redis part
ReleaseRedis(h) ==
    /\ hnd[h].pc = "relCache"
    /\ cache' = [cache EXCEPT ![HItem(h).product] = LuaRelease(@, HItem(h).qty).h]
    /\ hnd' = [hnd EXCEPT ![h].pc = "relDB"]
    /\ UNCHANGED <<inv, stock0, kafka, main, orders, orderItems, ledger, topic, req, mirrors,
                   events, redisErrs, applied>>

\* InventoryClient.ReleaseStock for item i, store part
ReleaseStore(h) ==
    /\ hnd[h].pc = "relDB"
    /\ inv' = [inv EXCEPT ![HItem(h).product] = StoreReleaseStock(@, HItem(h).qty)]
    /\ applied' = [applied EXCEPT ![HOrder(h)][hnd[h].i] = @ + 1]
    /\ hnd' = [hnd EXCEPT ![h] =
                  AfterItem(@, Len(orderItems[HOrder(h)]), "relCache", "cancel")]
    /\ UNCHANGED <<cache, stock0, kafka, main, orders, orderItems, ledger, topic, req,
                   mirrors, events, redisErrs>>

\* HandlePaymentFailed: status CANCELLED
SetCancelled(h) ==
    /\ hnd[h].pc = "cancel"
    /\ orders' = UpdateOrderStatus(orders, HOrder(h), "CANCELLED")
    /\ hnd' = [hnd EXCEPT ![h].pc = "mark"]
    /\ UNCHANGED <<cache, inv, stock0, kafka, main, orderItems, ledger, topic, req, mirrors,
                   events, redisErrs, applied>>

\* the ledger insert that ends both handlers; the handler returns nil
MarkProcessed(h) ==
    /\ hnd[h].pc = "mark"
    /\ ledger' = MarkEventProcessed(ledger, hnd[h].ev)
    /\ hnd' = [hnd EXCEPT ![h].pc = "done", ![h].ret = "ok"]
    /\ UNCHANGED <<cache, inv, stock0, kafka, main, orders, orderItems, topic, req, mirrors,
                   events, redisErrs, applied>>

\* HandlePaymentSuccess: the UPDATE to PAID fails; the handler returns the
\* error
SetPaidError(h) ==
    /\ hnd[h].pc = "paid"
    /\ hnd' = [hnd EXCEPT ![h].pc = "done", ![h].ret = "err"]
    /\ UNCHANGED <<cache, inv, stock0, kafka, main, orders, orderItems, ledger, topic, req,
                   mirrors, events, redisErrs, applied>>

\* both handlers: GetOrderItemsByOrderID fails; the handler returns the error
LoadItemsError(h) ==
    /\ hnd[h].pc \in {"commitCache", "relCache"}
    /\ hnd[h].i = 1
    /\ hnd' = [hnd EXCEPT ![h].pc = "done", ![h].ret = "err"]
    /\ UNCHANGED <<cache, inv, stock0, kafka, main, orders, orderItems, ledger, topic, req,
                   mirrors, events, redisErrs, applied>>

\* HandlePaymentSuccess: the UPDATE to CONFIRMED fails; the error is logged
\* and the handler goes on to the ledger insert
SetConfirmedError(h) ==
    /\ hnd[h].pc = "confirm"
    /\ hnd' = [hnd EXCEPT ![h].pc = "mark"]
    /\ UNCHANGED <<cache, inv, stock0, kafka, main, orders, orderItems, ledger, topic, req,
                   mirrors, events, redisErrs, applied>>

\* HandlePaymentFailed: the UPDATE to CANCELLED fails; the handler returns
\* the error
SetCancelledError(h) ==
    /\ hnd[h].pc = "cancel"
    /\ hnd' = [hnd EXCEPT ![h].pc = "done", ![h].ret = "err"]
    /\ UNCHANGED <<cache, inv, stock0, kafka, main, orders, orderItems, ledger, topic, req,
                   mirrors, events, redisErrs, applied>>

\* a statement of the handler fails in the store
HandlerStoreError(h) ==
    \/ SetPaidError(h)
    \/ LoadItemsError(h)
    \/ SetConfirmedError(h)
    \/ SetCancelledError(h)

\* the process dies while handler execution h is between two calls; ret
\* keeps the position it had reached, and the message, whose offset was not
\* committed, will be delivered again
Crash(h) ==
    /\ InFlight(h)
    /\ Cardinality({g \in Handlers : hnd[g].pc = "crashed"}) < MaxCrashes
    /\ hnd' = [hnd EXCEPT ![h].pc = "crashed", ![h].ret = hnd[h].pc]
    /\ UNCHANGED <<cache, inv, stock0, kafka, main, orders, orderItems, ledger, topic, req,
                   mirrors, events, redisErrs, applied>>

HandlerStep(h) ==
    \/ SetPaid(h)
    \/ CommitRedis(h)
    \/ CommitStore(h)
    \/ SetConfirmed(h)
    \/ ReleaseRedis(h)
    \/ ReleaseStore(h)
    \/ SetCancelled(h)
    \/ MarkProcessed(h)

\* ------------------------------------------------------------------ InventoryClient alone
\* A caller of the InventoryClient without an order: ReserveStock for
\* quantity q of product p and, when that succeeded, ReleaseStock or
\* CommitStock for the same product and quantity
ICItem(r) == req[r].items[1]

\* what the caller sees of product p before its call: the hash and the row
Snapshot(p) == <<cache[p], inv[p]>>

\* the (ok, err) of InventoryClient.ReserveStock
ICResult(ok, err) ==
    Respond(IF err # "" THEN "err" ELSE IF ok THEN "ok" ELSE "denied", 0, err)

CallReserveStock(r, p, q) ==
    /\ req[r].pc = "idle"
    /\ IF r = 1 THEN TRUE ELSE req[r - 1].pc # "idle"
    /\ req' = [req EXCEPT ![r] = [@ EXCEPT !.pc = "icReserve", !.i = 1,
                                           !.items = <<Item(p, q)>>,
                                           !.before = Snapshot(p)]]
    /\ UNCHANGED <<cache, inv, stock0, kafka, main, orders, orderItems, ledger, topic,
                   mirrors, events, hnd, redisErrs, applied>>

\* InventoryClient.ReserveStock, fast path: the Redis script ran
ICReserveStock(r) ==
    /\ req[r].pc = "icReserve"
    /\ LET it  == ICItem(r)
           res == LuaReserve(cache[it.product], it.qty)
       IN  /\ cache' = [cache EXCEPT ![it.product] = res.h]
           /\ IF res.ret = 1
              THEN /\ mirrors' = mirrors \cup
                        {[r |-> r, i |-> 1, product |-> it.product, qty |-> it.qty]}
                   /\ req' = [req EXCEPT ![r].pc = "icReserved",
                                         ![r].resp = ICResult(TRUE, "")]
              ELSE /\ mirrors' = mirrors
                   /\ req' = [req EXCEPT ![r].pc = "done",
                                         ![r].resp = ICResult(FALSE, "")]
    /\ UNCHANGED <<inv, stock0, kafka, main, orders, orderItems, ledger, topic, events, hnd,
                   redisErrs, applied>>

\* InventoryClient.ReserveStock: Redis is unreachable, reserveStockDB is called
ICReserveStockError(r) ==
    /\ req[r].pc = "icReserve"
    /\ redisErrs < MaxRedisErrs
    /\ redisErrs' = redisErrs + 1
    /\ req' = [req EXCEPT ![r].pc = "icReserveDB"]
    /\ UNCHANGED <<cache, inv, stock0, kafka, main, orders, orderItems, ledger, topic,
                   mirrors, events, hnd, applied>>

\* a row no transaction ever locks
NoRowLock(p) == FALSE

\* the inventory row of product p is locked: a ReserveStockTx is between its
\* SELECT ... FOR UPDATE and its commit or rollback
RowLocked(p) == \E x \in Reqs : req[x].pc = "icTx" /\ ICItem(x).product = p

\* Store.ReserveStockTx: BEGIN and SELECT available ... FOR UPDATE, which
\* waits while another transaction holds the row
BeginReserveStockTx(r) ==
    /\ req[r].pc = "icReserveDB"
    /\ ~RowLocked(ICItem(r).product)
    /\ req' = [req EXCEPT ![r].pc = "icTx",
                          ![r].j = inv[ICItem(r).product].available]
    /\ UNCHANGED <<cache, inv, stock0, kafka, main, orders, orderItems, ledger, topic,
                   mirrors, events, hnd, redisErrs, applied>>

\* Store.ReserveStockTx: the check of the value read, the UPDATE and the
\* commit (or the rollback), then the return of reserveStockDB
EndReserveStockTx(r) ==
    /\ req[r].pc = "icTx"
    /\ LET it  == ICItem(r)
           err == IF req[r].j < it.qty
                  THEN InsufficientStockError(req[r].j, it.qty) ELSE ""
           ret == reserveStockDBResult(err)
       IN  /\ inv' = IF err = ""
                     THEN [inv EXCEPT ![it.product] = ReserveUpdate(@, it.qty)]
                     ELSE inv
           /\ req' = [req EXCEPT ![r].pc = IF ret.ok THEN "icReserved" ELSE "done",
                                 ![r].resp = ICResult(ret.ok, ret.err)]
    /\ UNCHANGED <<cache, stock0, kafka, main, orders, orderItems, ledger, topic, mirrors,
                   events, hnd, redisErrs, applied>>

\* InventoryClient.ReleaseStock, Redis part
ICReleaseStock(r) ==
    /\ req[r].pc = "icReserved"
    /\ cache' = [cache EXCEPT ![ICItem(r).product] = LuaRelease(@, ICItem(r).qty).h]
    /\ req' = [req EXCEPT ![r].pc = "icReleaseDB"]
    /\ UNCHANGED <<inv, stock0, kafka, main, orders, orderItems, ledger, topic, mirrors,
                   events, hnd, redisErrs, applied>>

\* InventoryClient.ReleaseStock, store part; ReleaseStock returns
ICReleaseStockStore(r) ==
    /\ req[r].pc = "icReleaseDB"
    /\ inv' = [inv EXCEPT ![ICItem(r).product] = StoreReleaseStock(@, ICItem(r).qty)]
    /\ req' = [req EXCEPT ![r].pc = "done", ![r].resp = Respond("ok", 0, "released")]
    /\ UNCHANGED <<cache, stock0, kafka, main, orders, orderItems, ledger, topic, mirrors,
                   events, hnd, redisErrs, applied>>

\* InventoryClient.CommitStock, Redis part
ICCommitStock(r) ==
    /\ req[r].pc = "icReserved"
    /\ cache' = [cache EXCEPT ![ICItem(r).product] = LuaCommit(@, ICItem(r).qty).h]
    /\ req' = [req EXCEPT ![r].pc = "icCommitDB"]
    /\ UNCHANGED <<inv, stock0, kafka, main, orders, orderItems, ledger, topic, mirrors,
                   events, hnd, redisErrs, applied>>

\* InventoryClient.CommitStock, store part; CommitStock returns
ICCommitStockStore(r) ==
    /\ req[r].pc = "icCommitDB"
    /\ inv' = [inv EXCEPT ![ICItem(r).product] = StoreCommitStock(@, ICItem(r).qty)]
    /\ req' = [req EXCEPT ![r].pc = "done", ![r].resp = Respond("ok", 0, "committed")]
    /\ UNCHANGED <<cache, stock0, kafka, main, orders, orderItems, ledger, topic, mirrors,
                   events, hnd, redisErrs, applied>>

\* ------------------------------------------------------------------ specifications
\* requests whose product ids are all catalog rows (a product named twice is
\* still rejected by validateOrderItems)
CatalogLists == {l \in ItemLists : \A n \in 1..Len(l) : l[n].product \in Products}

\* Concurrent SubmitOrder calls and their mirror goroutines
Next ==
    \/ \E r \in Reqs, k \in Keys \cup {NoKey}, items \in CatalogLists :
          CreateOrder(r, k, items)
    \/ \E r \in Reqs : SubmitStep(r)
    \/ \E m \in mirrors : MirrorReserve(m)

Spec == Init /\ [][Next]_vars

\* One order and the payment-result events delivered for it, to handler
\* executions that may overlap (several service instances in one consumer
\* group, a rebalance during a handler)
NextSaga ==
    \/ \E items \in CatalogLists : CreateOrder(1, NoKey, items)
    \/ SubmitStep(1)
    \/ \E m \in mirrors : MirrorReserve(m)
    \/ \E e \in EventIds, o \in 1..Len(orders),
          type \in {"PaymentSuccess", "PaymentFailed"} : ProcessPayment(e, o, type)
    \/ \E h \in Handlers, e \in EventIds : HandleMessage(h, e)
    \/ \E h \in Handlers : HandlerStep(h)

SpecSaga == Init /\ [][NextSaga]_vars

\* The consumer loop of one service instance: a message is handed to the
\* handler only after the previous handler returned
ConsumeNext(h, e) ==
    /\ \A g \in Handlers : ~InFlight(g)
    /\ HandleMessage(h, e)

NextSeq ==
    \/ \E items \in CatalogLists : CreateOrder(1, NoKey, items)
    \/ SubmitStep(1)
    \/ \E m \in mirrors : MirrorReserve(m)
    \/ \E e \in EventIds, o \in 1..Len(orders),
          type \in {"PaymentSuccess", "PaymentFailed"} : ProcessPayment(e, o, type)
    \/ \E h \in Handlers, e \in EventIds : ConsumeNext(h, e)
    \/ \E h \in Handlers : HandlerStep(h)

SpecSeq == Init /\ [][NextSeq]_vars

\* One order with backends that may fail: Redis calls and store statements
\* of SubmitOrder and of the handlers return errors
NextFault ==
    \/ \E items \in CatalogLists : CreateOrder(1, NoKey, items)
    \/ SubmitStep(1)
    \/ SubmitRedisError(1)
    \/ SetReservedError(1)
    \/ \E m \in mirrors : MirrorReserve(m)
    \/ \E e \in EventIds, o \in 1..Len(orders),
          type \in {"PaymentSuccess", "PaymentFailed"} : ProcessPayment(e, o, type)
    \/ \E h \in Handlers, e \in EventIds : ConsumeNext(h, e)
    \/ \E h \in Handlers : HandlerStep(h)
    \/ \E h \in Handlers : HandlerStoreError(h)

SpecFault == Init /\ [][NextFault]_vars

\* One order, one consumer, and a process that may crash during a handler
NextCrash ==
    \/ \E items \in CatalogLists : CreateOrder(1, NoKey, items)
    \/ SubmitStep(1)
    \/ \E m \in mirrors : MirrorReserve(m)
    \/ \E e \in EventIds, o \in 1..Len(orders),
          type \in {"PaymentSuccess", "PaymentFailed"} : ProcessPayment(e, o, type)
    \/ \E h \in Handlers, e \in EventIds : ConsumeNext(h, e)
    \/ \E h \in Handlers : HandlerStep(h)
    \/ \E h \in Handlers : Crash(h)

SpecCrash == Init /\ [][NextCrash]_vars

\* One caller of the InventoryClient, on inventory that may hold
\* reservations already (cache and rows in agreement)
InitOps ==
    /\ inv \in [Products -> [available : 0..MaxStock, reserved : 0..MaxStock]]
    /\ stock0 = [p \in Products |-> inv[p].available]
    /\ cache = inv
    /\ orders = <<>>
    /\ orderItems = <<>>
    /\ ledger = [e \in EventIds |-> 0]
    /\ topic = <<>>
    /\ req = [r \in Reqs |-> idleReq]
    /\ mirrors = {}
    /\ events = [e \in EventIds |-> NoEvent]
    /\ hnd = [h \in Handlers |-> idleHnd]
    /\ redisErrs = 0
    /\ applied = <<>>
    /\ kafka = NoMessages
    /\ main = "serving"

NextOps ==
    \/ \E p \in Products, q \in Qtys : CallReserveStock(1, p, q)
    \/ ICReserveStock(1)
    \/ ICReserveStockError(1)
    \/ BeginReserveStockTx(1)
    \/ EndReserveStockTx(1)
    \/ ICReleaseStock(1)
    \/ ICReleaseStockStore(1)
    \/ ICCommitStock(1)
    \/ ICCommitStockStore(1)
    \/ \E m \in mirrors : MirrorReserve(m)

SpecOps == InitOps /\ [][NextOps]_vars

\* Redis unreachable: concurrent ReserveStock calls, each decided by its
\* ReserveStockTx
NextTx ==
    \/ \E r \in Reqs, p \in Products, q \in Qtys : CallReserveStock(r, p, q)
    \/ \E r \in Reqs : ICReserveStockError(r)
    \/ \E r \in Reqs : BeginReserveStockTx(r)
    \/ \E r \in Reqs : EndReserveStockTx(r)

SpecTx == Init /\ [][NextTx]_vars

\* ------------------------------------------------------------------ claims
Done(r)     == req[r].pc = "done"
Started(r)  == req[r].pc # "idle"
Reserved(r) == Done(r) /\ req[r].resp.kind = "ok" /\ req[r].resp.status = "RESERVED"
Flat(p)     == [available |-> stock0[p], reserved |-> 0]

\* every request submitted so far asks for quantity q of product p alone
Burst(p, q) == \A r \in Reqs : Started(r) => req[r].items = <<Item(p, q)>>

\* C1: in a burst of SubmitOrder requests that each ask for quantity q of one
\* product seeded with stock S, the orders answered RESERVED number at most
\* floor(S / q)
C1_NoOversell ==
    \A p \in Products, q \in Qtys :
        Burst(p, q) =>
            Cardinality({req[r].resp.oid : r \in {x \in Reqs : Reserved(x)}})
                <= stock0[p] \div q

\* C2: available and reserved are never negative, in the cache and in the
\* inventory row, for every product
C2_NonNegative ==
    \A p \in Products :
        /\ cache[p].available >= 0 /\ cache[p].reserved >= 0
        /\ inv[p].available >= 0 /\ inv[p].reserved >= 0

\* C9: the compensation of a failed reservation releases only items the
\* request had reserved, that is items before the one that failed
C9_CompensateOnlyReserved ==
    \A r \in Reqs :
        req[r].pc \in {"compCache", "compDB"} => req[r].j < req[r].i

\* the order state machine: CREATED -> RESERVED -> PAID -> CONFIRMED,
\* RESERVED -> CANCELLED, CREATED -> FAILED
LegalTransitions ==
    {<<"CREATED", "RESERVED">>, <<"RESERVED", "PAID">>, <<"PAID", "CONFIRMED">>,
     <<"RESERVED", "CANCELLED">>, <<"CREATED", "FAILED">>}

\* C3: every change of an order's status is an edge of the state machine (so
\* a CONFIRMED, CANCELLED or FAILED order never changes status again)
C3_LegalTransitions ==
    [][\A o \in 1..Len(orders) :
          orders'[o].status # orders[o].status =>
              <<orders[o].status, orders'[o].status>> \in LegalTransitions]_vars

\* the handler executions that went past the ledger check for event e
Ran(e) == {h \in Handlers : hnd[h].ev = e /\ hnd[h].i > 0}
\* the handler executions of event e that returned
Returned(e) == {h \in Handlers : hnd[h].ev = e /\ hnd[h].pc = "done"}
\* the payment-result events published for order o
EventsOf(o) == {e \in EventIds : events[e].order = o}

\* C8: one payment-result event delivered to handler executions that overlap
\* has the effect of one delivery: each order item is committed (or released)
\* once in total
C8_ConcurrentDuplicateTolerated ==
    \A e \in EventIds :
        (events[e] # NoEvent /\ EventsOf(events[e].order) = {e}) =>
            \A n \in 1..Len(applied[events[e].order]) :
                applied[events[e].order][n] <= 1

WithKey(k) == {o \in 1..Len(orders) : orders[o].key = k}

\* C4 as stated: two SubmitOrder calls with one idempotency_key produce
\* exactly one order and identical responses (same order_id, same status)
C4_IdenticalResponses ==
    \A r1, r2 \in Reqs :
        (r1 # r2 /\ Done(r1) /\ Done(r2) /\ req[r1].key = req[r2].key
           /\ validateOrderItems(req[r1].items) /\ validateOrderItems(req[r2].items)) =>
            /\ Cardinality(WithKey(req[r1].key)) = 1
            /\ req[r1].resp.kind = "ok"
            /\ req[r1].resp = req[r2].resp

\* C4 as amended: at most one order exists per idempotency_key, and every
\* SubmitOrder call that returns success returns the id of the order that
\* carries the call's key (RESERVED when the call created the order itself)
C4_SameOrderId ==
    /\ \A r \in Reqs : Cardinality(WithKey(req[r].key)) <= 1
    /\ \A r \in Reqs :
          (Done(r) /\ req[r].resp.kind = "ok") =>
              /\ WithKey(req[r].key) = {req[r].resp.oid}
              /\ req[r].oid # 0 => req[r].resp.status = "RESERVED"

\* two successful responses for one key that carry the same order_id and a
\* different status
C4_Witness ==
    \E r1, r2 \in Reqs :
        /\ r1 # r2 /\ Done(r1) /\ Done(r2) /\ req[r1].key = req[r2].key
        /\ req[r1].resp.kind = "ok" /\ req[r2].resp.kind = "ok"
        /\ req[r1].resp.oid = req[r2].resp.oid
        /\ req[r1].resp.status # req[r2].resp.status

\* C5: a valid SubmitOrder call that did not insert the order itself, while
\* an order with its key exists (it found the order, or its insert hit the
\* unique-key violation), returns that order as a success
C5_LoserReturnsWinner ==
    \A r \in Reqs :
        (Done(r) /\ req[r].oid = 0 /\ validateOrderItems(req[r].items)
           /\ WithKey(req[r].key) # {}) =>
            /\ req[r].resp.kind = "ok"
            /\ req[r].resp.oid \in WithKey(req[r].key)

\* the positions of SubmitOrder from the first Reserve call on
Reserving == {"reserve", "reserveDB", "compCache", "compDB", "setFailed",
              "setReserved", "pubReserved"}

\* C6: at most one order row per idempotency_key; an insert with a used key
\* adds no row; of the calls that carry one key, only the one that inserted
\* the order ever reserves stock
C6_OneOrderPerKey ==
    /\ \A o1, o2 \in 1..Len(orders) : orders[o1].key = orders[o2].key => o1 = o2
    /\ Len(orders) = Cardinality({r \in Reqs : req[r].oid # 0})
    /\ \A r1, r2 \in Reqs :
          (req[r1].key = req[r2].key /\ req[r1].oid # 0 /\ req[r2].oid # 0) => r1 = r2
    /\ \A r \in Reqs :
          (req[r].pc \in Reserving \/ \E m \in mirrors : m.r = r) =>
              /\ req[r].oid # 0
              /\ orders[req[r].oid].key = req[r].key

\* two calls with one key, both passed the lookup, one inserted the order and
\* the other's insert failed
C6_Witness ==
    \E r1, r2 \in Reqs :
        /\ r1 # r2 /\ Done(r1) /\ Done(r2) /\ req[r1].key = req[r2].key
        /\ req[r1].oid # 0 /\ req[r1].resp.status = "RESERVED"
        /\ req[r2].resp.status = "db_error"

\* the quantity of product p in order o (a product appears once per order)
QtyOf(o, p) ==
    IF \E n \in 1..Len(orderItems[o]) : orderItems[o][n].product = p
    THEN orderItems[o][CHOOSE n \in 1..Len(orderItems[o]) :
                          orderItems[o][n].product = p].qty
    ELSE 0

\* the inventory of product p after one delivery of event e
AfterOneDelivery(e, p) ==
    IF events[e].type = "PaymentSuccess"
    THEN [available |-> stock0[p] - QtyOf(events[e].order, p), reserved |-> 0]
    ELSE Flat(p)

\* C7: an event id delivered k >= 1 times in sequence has the effect of one
\* delivery: one handler execution applies it, the ledger holds one row for
\* it, and (no other event of the order existing) each item is committed or
\* released once, the order ends CONFIRMED or CANCELLED, and the cache and
\* the inventory rows are those one delivery leaves
C7_RedeliveryIsNoOp ==
    \A e \in EventIds :
        /\ ledger[e] <= 1
        /\ Cardinality(Ran(e)) <= 1
        /\ Returned(e) # {} => ledger[e] = 1
        /\ (events[e] # NoEvent /\ EventsOf(events[e].order) = {e}) =>
              LET o == events[e].order
              IN  /\ \A n \in 1..Len(applied[o]) : applied[o][n] <= 1
                  /\ Returned(e) # {} =>
                        /\ \A n \in 1..Len(applied[o]) : applied[o][n] = 1
                        /\ orders[o].status =
                              IF events[e].type = "PaymentSuccess"
                              THEN "CONFIRMED" ELSE "CANCELLED"
                        /\ (mirrors = {} /\ \A g \in Handlers : ~InFlight(g)) =>
                              \A p \in Products :
                                  /\ cache[p] = AfterOneDelivery(e, p)
                                  /\ inv[p] = AfterOneDelivery(e, p)

\* the only event of an order was delivered, and handled to the end, at
\* least twice
C7_Witness ==
    \E e \in EventIds :
        /\ events[e] # NoEvent /\ EventsOf(events[e].order) = {e}
        /\ Cardinality(Returned(e)) >= 2
        /\ ledger[e] = 1

\* no other SubmitOrder call has been submitted
Solo(r) == \A x \in Reqs \ {r} : ~Started(x)

\* C10: a SubmitOrder call (running alone) one of whose items was denied has
\* released every item it reserved before, whose inventory is back at the
\* seeded {available, reserved} in the cache and, the mirrors having run, in
\* the inventory row; the order is FAILED and the caller got an error
C10_PartialReservationReleased ==
    \A r \in Reqs :
        (Done(r) /\ req[r].denied /\ Solo(r) /\ mirrors = {}) =>
            /\ req[r].resp.kind = "err"
            /\ orders[req[r].oid].status = "FAILED"
            /\ \A n \in 1..(req[r].i - 1) :
                  /\ cache[req[r].items[n].product] = Flat(req[r].items[n].product)
                  /\ inv[req[r].items[n].product] = Flat(req[r].items[n].product)

\* a call alone whose first item was reserved and whose second was denied
C10_Witness ==
    \E r \in Reqs :
        /\ Done(r) /\ req[r].denied /\ Solo(r) /\ mirrors = {}
        /\ req[r].i = 2

\* a ReserveStock call that returned while the store decided it had too
\* little: by the Redis script, or (Redis unreachable) by ReserveStockTx
InsufficientOnCache(r) ==
    /\ req[r].pc = "done" /\ redisErrs = 0
    /\ req[r].before[1].available < ICItem(r).qty
InsufficientOnFallback(r) ==
    /\ req[r].pc = "done" /\ redisErrs > 0
    /\ req[r].before[2].available < ICItem(r).qty

\* C14: InventoryClient.ReserveStock reports insufficient stock as
\* (ok = false, err = nil) on the Redis path and on the fallback path
C14_InsufficientIsNotAnError ==
    \A r \in Reqs :
        (InsufficientOnCache(r) \/ InsufficientOnFallback(r)) =>
            req[r].resp = ICResult(FALSE, "")

\* the calls that reserved quantity of product p
ReservedCalls(p) ==
    {r \in Reqs : req[r].pc = "icReserved" /\ ICItem(r).product = p}

RECURSIVE SumQty(_)
SumQty(S) ==
    IF S = {} THEN 0
    ELSE LET r == CHOOSE x \in S : TRUE IN ICItem(r).qty + SumQty(S \ {r})

\* C18: with Redis unreachable every ReserveStock call is decided by
\* ReserveStockTx (the cache is untouched, no mirror is started); the row's
\* available is never negative and the quantities of the calls that
\* succeeded sum to at most the seeded available
C18_FallbackNeverOversells ==
    /\ mirrors = {}
    /\ \A p \in Products :
          /\ cache[p] = Flat(p)
          /\ inv[p].available >= 0
          /\ SumQty(ReservedCalls(p)) <= stock0[p]
          /\ inv[p] = [available |-> stock0[p] - SumQty(ReservedCalls(p)),
                       reserved  |-> SumQty(ReservedCalls(p))]

\* two calls for the last unit of one product, both in ReserveStockTx at
\* the same time: one holds the row, one waits
C18_Witness ==
    \E r1, r2 \in Reqs :
        /\ req[r1].pc = "icTx" /\ req[r2].pc = "icReserveDB"
        /\ ICItem(r1).product = ICItem(r2).product
        /\ stock0[ICItem(r1).product] = ICItem(r1).qty

\* C19: ReserveStock followed by ReleaseStock (same product and quantity,
\* enough available, Redis reachable, nothing interleaved, the mirror done)
\* leaves the hash and the row as they were
C19_ReleaseUndoesReserve ==
    \A r \in Reqs :
        (req[r].pc = "done" /\ req[r].resp.status = "released"
           /\ redisErrs = 0 /\ mirrors = {}) =>
            Snapshot(ICItem(r).product) = req[r].before

\* a Reserve and a Release done on a product that held reservations before
C19_Witness ==
    \E r \in Reqs :
        /\ req[r].pc = "done" /\ req[r].resp.status = "released"
        /\ redisErrs = 0 /\ mirrors = {}
        /\ req[r].before[1].reserved > 0

\* the hash or row h with quantity q taken out of available
Deducted(h, q) == [available |-> h.available - q, reserved |-> h.reserved]

\* C20: ReserveStock followed by CommitStock (same product and quantity,
\* enough available, Redis reachable, nothing interleaved, the mirror done)
\* lowers available by q and leaves reserved as it was, in hash and row
C20_CommitDeductsReserved ==
    \A r \in Reqs :
        (req[r].pc = "done" /\ req[r].resp.status = "committed"
           /\ redisErrs = 0 /\ mirrors = {}) =>
            Snapshot(ICItem(r).product) =
                <<Deducted(req[r].before[1], ICItem(r).qty),
                  Deducted(req[r].before[2], ICItem(r).qty)>>

\* a Reserve and a Commit done on a product that held reservations before
C20_Witness ==
    \E r \in Reqs :
        /\ req[r].pc = "done" /\ req[r].resp.status = "committed"
        /\ redisErrs = 0 /\ mirrors = {}
        /\ req[r].before[1].reserved > 0

\* nothing is running: no SubmitOrder call, no handler, no mirror goroutine
Quiet ==
    /\ mirrors = {}
    /\ \A g \in Handlers : ~InFlight(g)
    /\ \A r \in Reqs : req[r].pc \in {"idle", "done"}

\* the products named by order o
ProductsOf(o) == {orderItems[o][n].product : n \in 1..Len(orderItems[o])}

\* C11: at the end of a saga (order CONFIRMED, CANCELLED or FAILED, nothing
\* running) the reserved counter of every product of the order is what it
\* was before the saga, 0, in the cache and in the inventory row
C11_ReservedRestored ==
    \A o \in 1..Len(orders) :
        (orders[o].status \in {"CONFIRMED", "CANCELLED", "FAILED"} /\ Quiet) =>
            \A p \in ProductsOf(o) :
                cache[p].reserved = 0 /\ inv[p].reserved = 0

\* every item of the request is within the seeded stock of its product
InStock(r) ==
    \A n \in 1..Len(req[r].items) :
        req[r].items[n].qty <= stock0[req[r].items[n].product]

\* the only payment-result event of its order is e, of the given type, and
\* a handler execution for it returned
Handled(e, type) ==
    /\ events[e].type = type
    /\ EventsOf(events[e].order) = {e}
    /\ Returned(e) # {}

\* C12: happy path: a SubmitOrder for quantities within stock returns
\* RESERVED; once the PaymentSuccess handler of the order returned the order
\* is CONFIRMED and (the mirror goroutines done) the inventory row of each
\* product is {available: S - q, reserved: 0}
C12_HappyPath ==
    /\ \A r \in Reqs :
          (Done(r) /\ validateOrderItems(req[r].items) /\ InStock(r)) => Reserved(r)
    /\ \A e \in EventIds :
          Handled(e, "PaymentSuccess") =>
              /\ orders[events[e].order].status = "CONFIRMED"
              /\ Quiet =>
                    \A p \in Products :
                        inv[p] = [available |-> stock0[p] - QtyOf(events[e].order, p),
                                  reserved  |-> 0]

\* an order was paid and its handler returned, nothing left running
C12_Witness ==
    \E e \in EventIds : Handled(e, "PaymentSuccess") /\ Quiet /\ Reserved(1)

\* C13: payment failure: once the PaymentFailed handler of a RESERVED order
\* returned the order is CANCELLED and (the mirror goroutines done) the
\* inventory row of each product is back at {available: S, reserved: 0}
C13_PaymentFailure ==
    \A e \in EventIds :
        Handled(e, "PaymentFailed") =>
            /\ orders[events[e].order].status = "CANCELLED"
            /\ Quiet => \A p \in Products : inv[p] = Flat(p)

\* an order's payment failed and its handler returned, nothing left running
C13_Witness ==
    \E e \in EventIds : Handled(e, "PaymentFailed") /\ Quiet /\ Reserved(1)

\* C15: a SubmitOrder call that returned an error after it began reserving
\* (the reservation failed, or the update to RESERVED failed) leaves no
\* stock reserved for its order, in the cache or in the inventory row
C15_ErrorAfterCompensation ==
    \A r \in Reqs :
        (Done(r) /\ req[r].resp.kind = "err" /\ mirrors = {}
           /\ req[r].resp.status \in {"reservation_failed", "status_update_failed"}) =>
            \A p \in ProductsOf(req[r].oid) :
                cache[p].reserved <= 0 /\ inv[p].reserved <= 0

\* C16: an event id in the ledger implies that its handler set the order to
\* CONFIRMED (PaymentSuccess) or CANCELLED (PaymentFailed): no handler marks
\* the event processed after one of its steps failed
C16_MarkedImpliesApplied ==
    \A e \in EventIds :
        (ledger[e] > 0 /\ EventsOf(events[e].order) = {e}) =>
            orders[events[e].order].status =
                IF events[e].type = "PaymentSuccess" THEN "CONFIRMED" ELSE "CANCELLED"

\* a handler execution of event e died after the handler's status update
\* and before its ledger insert
CrashedAfterUpdate(e) ==
    \E h \in Handlers :
        /\ hnd[h].ev = e /\ hnd[h].pc = "crashed"
        /\ hnd[h].ret \in IF events[e].type = "PaymentSuccess"
                          THEN {"commitCache", "commitDB", "confirm", "mark"}
                          ELSE {"mark"}

\* C17: after a crash between a handler's status update and its ledger
\* insert, the redelivered event leaves the order status and the inventory
\* of every product as one uninterrupted delivery leaves them
C17_CrashThenRedelivery ==
    \A e \in EventIds :
        (events[e] # NoEvent /\ EventsOf(events[e].order) = {e}
           /\ CrashedAfterUpdate(e) /\ Returned(e) # {} /\ Quiet) =>
            /\ orders[events[e].order].status =
                  IF events[e].type = "PaymentSuccess" THEN "CONFIRMED" ELSE "CANCELLED"
            /\ \A p \in Products :
                  /\ cache[p] = AfterOneDelivery(e, p)
                  /\ inv[p] = AfterOneDelivery(e, p)

\* ------------------------------------------------------------------ HTTP handler
\* the items of a request body: any product id, quantities 1..MaxQty, and the
\* empty list
RequestLists == ItemLists \cup {<<>>}

\* c.ShouldBindJSON(&req): CreateOrderRequest.Items is `required,min=1`
ShouldBindJSON(items) == Len(items) >= 1

\* Handler.createOrder: the status code of the response. A body that does not
\* bind is answered 400, any error of OrderService.CreateOrder 500, an order 201
HttpStatus(resp) ==
    IF resp.kind = "ok" THEN 201
    ELSE IF resp.status = "invalid_body" THEN 400
    ELSE 500

\* Handler.createOrder: POST /orders
createOrder(r, k, items) ==
    IF ShouldBindJSON(items)
    THEN CreateOrder(r, k, items)
    ELSE /\ req[r].pc = "idle"
         /\ IF r = 1 THEN TRUE ELSE req[r - 1].pc # "idle"
         /\ req' = [req EXCEPT ![r].pc = "done", ![r].items = items,
                               ![r].resp = Respond("err", 0, "invalid_body")]
         /\ UNCHANGED <<cache, inv, stock0, kafka, main, orders, orderItems,
                        ledger, topic, mirrors, events, hnd, redisErrs, applied>>

\* One POST /orders with any body, stores responding
NextHttp ==
    \/ \E k \in Keys \cup {NoKey}, items \in RequestLists : createOrder(1, k, items)
    \/ SubmitStep(1)
    \/ \E m \in mirrors : MirrorReserve(m)

SpecHttp == Init /\ [][NextHttp]_vars

\* the request names a product id that is not in the catalog
MissingProduct(r) == \E n \in 1..Len(req[r].items) : req[r].items[n].product \notin Products

\* the request was answered by the validation step
InvalidItems(r) == Done(r) /\ req[r].resp = Respond("err", 0, "invalid_items")

\* C21: a request that binds is answered InvalidItems exactly when one of its
\* product ids is missing from the catalog; naming one catalog product in two
\* items is accepted
C21_InvalidItemsIffMissing ==
    \A r \in Reqs :
        (Started(r) /\ ShouldBindJSON(req[r].items))
            => (InvalidItems(r) <=> MissingProduct(r))

\* nothing was written: no order row, item, reservation or event
NoSideEffects ==
    /\ orders = <<>> /\ orderItems = <<>> /\ topic = <<>>
    /\ mirrors = {}
    /\ \A p \in Products : cache[p] = Flat(p) /\ inv[p] = Flat(p)

\* C22: a request with a malformed body or a product id that is not in the
\* catalog is answered with a 4xx status and leaves no order row, item,
\* reservation or event behind
C22_RejectedWith4xx ==
    \A r \in Reqs :
        (Done(r) /\ (~ShouldBindJSON(req[r].items) \/ MissingProduct(r)))
            => /\ HttpStatus(req[r].resp) \in 400..499
               /\ NoSideEffects

RECURSIVE PricedTotal(_, _)
\* the sum over the products S of price times the quantity ordered in order o
PricedTotal(o, S) ==
    IF S = {} THEN 0
    ELSE LET p == CHOOSE x \in S : TRUE
         IN  Price(p) * QtyOf(o, p) + PricedTotal(o, S \ {p})

\* C23: once the items of an order are persisted, the order's total is the sum
\* of price times quantity over them, and each item row carries the product,
\* the quantity and the product's price
C23_TotalIsPriceTimesQuantity ==
    \A r \in Reqs :
        (req[r].oid # 0 /\ req[r].pc # "items")
            => LET o == req[r].oid
               IN  /\ Len(orderItems[o]) = Len(req[r].items)
                   /\ \A n \in 1..Len(orderItems[o]) :
                         orderItems[o][n] =
                            [product |-> req[r].items[n].product,
                             qty     |-> req[r].items[n].qty,
                             price   |-> Price(req[r].items[n].product)]
                   /\ orders[o].total = PricedTotal(o, Products)

C23_Witness ==
    /\ Len(orders) = 1 /\ Len(orderItems[1]) = 2
    /\ req[1].pc = "pubCreated"
    /\ req[1].items = <<Item(1, 2), Item(2, 1)>>
    /\ orders[1].total = 4200000

\* ------------------------------------------------------------------ Kafka
\* a message of the topic: the event type and the order id its key is made of
Message(o, type) == [order |-> o, type |-> type]

\* the messages of the topic, over all partitions
Published == UNION {{kafka.log[p][n] : n \in 1..Len(kafka.log[p])} : p \in Partitions}

\* the events of an order in the order the saga publishes them: OrderCreated
\* and OrderReserved by CreateOrder, then PaymentSuccess or PaymentFailed by
\* ProcessPayment
Rank(type) == IF type = "OrderCreated" THEN 1
              ELSE IF type = "OrderReserved" THEN 2 ELSE 3

\* the event types the saga of order o may publish next
NextTypes(o) ==
    IF Message(o, "OrderCreated") \notin Published THEN {"OrderCreated"}
    ELSE IF Message(o, "OrderReserved") \notin Published THEN {"OrderReserved"}
    ELSE IF \E m \in Published : m.order = o /\ Rank(m.type) = 3 THEN {}
    ELSE {"PaymentSuccess", "PaymentFailed"}

\* kafka.Writer{Balancer: &kafka.LeastBytes{}}: the partition that has
\* received the fewest bytes, whatever the key of the message
LeastBytes(o) == Partitions

\* Producer.PublishEvent: a message with key order-<o> is written to the
\* partition the balancer chooses
PublishEvent(o, type, p) ==
    /\ type \in NextTypes(o)
    /\ p \in LeastBytes(o)
    /\ kafka' = [kafka EXCEPT !.log[p] = Append(@, Message(o, type))]
    /\ UNCHANGED <<cache, inv, stock0, main, orders, orderItems, ledger, topic,
                   req, mirrors, events, hnd, redisErrs, applied>>

\* every event of the same order published before msg has been fetched
InPublicationOrder(msg) ==
    \A m \in Published :
        (m.order = msg.order /\ Rank(m.type) < Rank(msg.type)) => m \in kafka.seen

\* Consumer.StartConsuming: reader.FetchMessage returns the next message of
\* one of the partitions
FetchMessage(p) ==
    /\ kafka.cur = 0
    /\ kafka.pos[p] < Len(kafka.log[p])
    /\ LET msg == kafka.log[p][kafka.pos[p] + 1]
       IN  kafka' = [kafka EXCEPT !.pos[p] = @ + 1, !.cur = p,
                                  !.seen = @ \cup {msg},
                                  !.late = IF InPublicationOrder(msg) THEN @
                                           ELSE @ \cup {msg}]
    /\ UNCHANGED <<cache, inv, stock0, main, orders, orderItems, ledger, topic,
                   req, mirrors, events, hnd, redisErrs, applied>>

\* the (partition, offset) of the message being handled
Current == <<kafka.cur, kafka.pos[kafka.cur]>>

\* Consumer.StartConsuming: the handler returned nil, and
\* reader.CommitMessages(ctx, msg) moves the group's offset of the partition
\* to the message's offset
HandlerReturnsNil ==
    /\ kafka.cur # 0
    /\ kafka' = [kafka EXCEPT !.committed[kafka.cur] = kafka.pos[kafka.cur],
                              !.handled = @ \cup {<<Current[1], Current[2], "ok">>},
                              !.cur = 0]
    /\ UNCHANGED <<cache, inv, stock0, main, orders, orderItems, ledger, topic,
                   req, mirrors, events, hnd, redisErrs, applied>>

\* Consumer.StartConsuming: the handler returned an error (HandleMessage does
\* so for payment results only); it is logged and the loop continues with
\* the next FetchMessage
HandlerReturnsError ==
    /\ kafka.cur # 0
    /\ Rank(kafka.log[Current[1]][Current[2]].type) = 3
    /\ kafka' = [kafka EXCEPT !.handled = @ \cup {<<Current[1], Current[2], "err">>},
                              !.cur = 0]
    /\ UNCHANGED <<cache, inv, stock0, main, orders, orderItems, ledger, topic,
                   req, mirrors, events, hnd, redisErrs, applied>>

\* the process is restarted: the new reader of the group starts at the
\* committed offsets
RestartConsumer ==
    /\ kafka.restarts < MaxRestarts
    /\ kafka' = [kafka EXCEPT !.pos = kafka.committed, !.cur = 0,
                              !.restarts = @ + 1]
    /\ UNCHANGED <<cache, inv, stock0, main, orders, orderItems, ledger, topic,
                   req, mirrors, events, hnd, redisErrs, applied>>

\* The topic, its producer and the reader of the order worker's group
NextKafka ==
    \/ \E o \in OrderIds, p \in Partitions :
          \E type \in NextTypes(o) : PublishEvent(o, type, p)
    \/ \E p \in Partitions : FetchMessage(p)
    \/ HandlerReturnsNil
    \/ HandlerReturnsError
    \/ RestartConsumer

InitKafka == Init /\ stock0 = [p \in Products |-> MaxStock]

SpecKafka == InitKafka /\ [][NextKafka]_vars

\* the group's committed offset of partition p covers offset n
Acknowledged(p, n) == n <= kafka.committed[p]

\* C24: a message is acknowledged to the broker (covered by the group's
\* committed offset) only if some handling of it returned success
C24_CommittedOnlyAfterSuccess ==
    \A p \in Partitions : \A n \in 1..Len(kafka.log[p]) :
        Acknowledged(p, n) => <<p, n, "ok">> \in kafka.handled

\* the partitions that hold a message of order o
PartitionsOf(o) ==
    {p \in Partitions : \E n \in 1..Len(kafka.log[p]) : kafka.log[p][n].order = o}

\* C25: the events of one order are in one partition, and the reader fetches
\* them in publication order: OrderCreated before OrderReserved before
\* PaymentSuccess / PaymentFailed
C25_PublicationOrder ==
    /\ \A o \in OrderIds : Cardinality(PartitionsOf(o)) <= 1
    /\ kafka.late = {}

\* ------------------------------------------------------------------ shutdown
\* InventoryClient.CommitStock for item i: the Redis call returns an error,
\* which is logged; the store part follows
CommitRedisError(h) ==
    /\ hnd[h].pc = "commitCache"
    /\ hnd' = [hnd EXCEPT ![h].pc = "commitDB"]
    /\ UNCHANGED <<cache, inv, stock0, kafka, main, orders, orderItems, ledger,
                   topic, req, mirrors, events, redisErrs, applied>>

\* a handler that returns the error of CommitStock
CommitErrorIsFatal(x, n) == [x EXCEPT !.pc = "done", !.ret = "err"]

\* HandlePaymentSuccess: the error of CommitStock for item i is logged and
\* the loop goes on with the next item, or to the UPDATE to CONFIRMED
AfterCommitError(x, n) == AfterItem(x, n, "commitCache", "confirm")

\* InventoryClient.CommitStock for item i: Store.CommitStock returns an
\* error, which the handler logs; the loop goes on
CommitStoreError(h) ==
    /\ hnd[h].pc = "commitDB"
    /\ hnd' = [hnd EXCEPT ![h] = AfterCommitError(@, Len(orderItems[HOrder(h)]))]
    /\ UNCHANGED <<cache, inv, stock0, kafka, main, orders, orderItems, ledger,
                   topic, req, mirrors, events, redisErrs, applied>>

\* InventoryClient.ReleaseStock for item i: the Redis call returns an error,
\* which is logged; the store part follows
ReleaseRedisError(h) ==
    /\ hnd[h].pc = "relCache"
    /\ hnd' = [hnd EXCEPT ![h].pc = "relDB"]
    /\ UNCHANGED <<cache, inv, stock0, kafka, main, orders, orderItems, ledger,
                   topic, req, mirrors, events, redisErrs, applied>>

\* InventoryClient.ReleaseStock for item i: Store.ReleaseStock returns an
\* error, which the handler logs; the loop goes on
ReleaseStoreError(h) ==
    /\ hnd[h].pc = "relDB"
    /\ hnd' = [hnd EXCEPT ![h] =
                  AfterItem(@, Len(orderItems[HOrder(h)]), "relCache", "cancel")]
    /\ UNCHANGED <<cache, inv, stock0, kafka, main, orders, orderItems, ledger,
                   topic, req, mirrors, events, redisErrs, applied>>

\* both handlers: MarkEventProcessed returns an error, which is logged; the
\* handler returns nil
MarkProcessedError(h) ==
    /\ hnd[h].pc = "mark"
    /\ hnd' = [hnd EXCEPT ![h].pc = "done", ![h].ret = "ok"]
    /\ UNCHANGED <<cache, inv, stock0, kafka, main, orders, orderItems, ledger,
                   topic, req, mirrors, events, redisErrs, applied>>

\* the next call of handler execution h is made with a cancelled context and
\* returns context.Canceled
HandlerCallCanceled(h) ==
    \/ HandlerStoreError(h)
    \/ CommitRedisError(h)
    \/ CommitStoreError(h)
    \/ ReleaseRedisError(h)
    \/ ReleaseStoreError(h)
    \/ MarkProcessedError(h)

\* main: SIGINT or SIGTERM arrived; srv.Shutdown(shutdownCtx) closes the
\* listener and returns when the active requests have ended or after 10 s
SrvShutdown ==
    /\ main = "serving"
    /\ main' = "httpClosed"
    /\ UNCHANGED <<cache, inv, stock0, kafka, orders, orderItems, ledger, topic,
                   req, mirrors, events, hnd, redisErrs, applied>>

\* main: workerCancel() cancels the context of both consumer loops, which is
\* also the context their handlers make their calls with
WorkerCancel ==
    /\ main = "httpClosed"
    /\ main' = "cancelled"
    /\ UNCHANGED <<cache, inv, stock0, kafka, orders, orderItems, ledger, topic,
                   req, mirrors, events, hnd, redisErrs, applied>>

\* main: orderWorker.Stop() and paymentWorker.Stop() close the readers, main
\* returns, the deferred Close of producer, Redis and database run, and the
\* process ends with every goroutine it had
Exit ==
    /\ main = "cancelled"
    /\ main' = "exited"
    /\ UNCHANGED <<cache, inv, stock0, kafka, orders, orderItems, ledger, topic,
                   req, mirrors, events, hnd, redisErrs, applied>>

\* the context of the consumer loops is not cancelled
Consuming == main \in {"serving", "httpClosed"}

\* One order, the sequential consumer and the shutdown sequence of main
NextShutdown ==
    \/ main = "serving" /\ \E items \in CatalogLists : createOrder(1, NoKey, items)
    \/ main # "exited" /\ SubmitStep(1)
    \/ main # "exited" /\ \E m \in mirrors : MirrorReserve(m)
    \/ Consuming /\ \E e \in EventIds, o \in 1..Len(orders),
            type \in {"PaymentSuccess", "PaymentFailed"} : ProcessPayment(e, o, type)
    \/ Consuming /\ \E h \in Handlers, e \in EventIds : ConsumeNext(h, e)
    \/ Consuming /\ \E h \in Handlers : HandlerStep(h)
    \/ main = "cancelled" /\ \E h \in Handlers : HandlerCallCanceled(h)
    \/ SrvShutdown
    \/ WorkerCancel
    \/ Exit

SpecShutdown == Init /\ [][NextShutdown]_vars

\* handler execution h has returned after its ledger insert
ReachedLedgerInsert(h) == hnd[h].pc = "done" /\ ledger[hnd[h].ev] > 0

\* C26: when the process has ended (consumer loops gone, connections closed),
\* every handler execution that had begun has finished with its event in the
\* ledger
C26_HandlerFinishesBeforeExit ==
    main = "exited" =>
        \A h \in Handlers : hnd[h].pc # "idle" => ReachedLedgerInsert(h)

\* ------------------------------------------------------------------ cancelled requests
\* the client of request r goes away while OrderService.CreateOrder runs:
\* c.Request.Context() is cancelled; ctx keeps the position of the request
CancelRequest(r) ==
    /\ req[r].pc \notin {"idle", "done"}
    /\ req[r].ctx = ""
    /\ req' = [req EXCEPT ![r].ctx = req[r].pc]
    /\ UNCHANGED <<cache, inv, stock0, kafka, main, orders, orderItems, ledger,
                   topic, mirrors, events, hnd, redisErrs, applied>>

\* OrderService.CreateOrder: where the request goes when its next call, made
\* with the cancelled context, returns context.Canceled. The INSERTs and the
\* UPDATE to RESERVED return the error; a failed publish is logged; a failed
\* ReserveStock (Redis, then reserveStockDB) starts the compensation, whose
\* failed ReleaseStock calls are logged; the error of the UPDATE to FAILED
\* is dropped
AfterCanceledCall(q) ==
    CASE q.pc = "insert"      -> [q EXCEPT !.pc = "done", !.resp = Respond("err", 0, "db_error")]
      [] q.pc = "items"       -> [q EXCEPT !.pc = "done", !.resp = Respond("err", 0, "db_error")]
      [] q.pc = "pubCreated"  -> [q EXCEPT !.pc = "reserve", !.i = 1]
      [] q.pc = "reserve"     -> AfterError(q)
      [] q.pc = "compCache"   -> [q EXCEPT !.pc = "compDB"]
      [] q.pc = "compDB"      -> AfterCompensated(q)
      [] q.pc = "setFailed"   -> [q EXCEPT !.pc = "done",
                                           !.resp = Respond("err", 0, "reservation_failed")]
      [] q.pc = "setReserved" -> [q EXCEPT !.pc = "done",
                                           !.resp = Respond("err", 0, "status_update_failed")]
      [] q.pc = "pubReserved" -> [q EXCEPT !.pc = "done",
                                           !.resp = Respond("ok", q.oid, "RESERVED")]

\* the next call of request r is made with the cancelled context
CanceledCall(r) ==
    /\ req[r].ctx # ""
    /\ req[r].pc \notin {"idle", "done"}
    /\ req' = [req EXCEPT ![r] = AfterCanceledCall(@)]
    /\ UNCHANGED <<cache, inv, stock0, kafka, main, orders, orderItems, ledger,
                   topic, mirrors, events, hnd, redisErrs, applied>>

\* One POST /orders whose client may go away at any point, stores responding
NextCancel ==
    \/ \E items \in CatalogLists : createOrder(1, NoKey, items)
    \/ req[1].ctx = "" /\ SubmitStep(1)
    \/ CancelRequest(1)
    \/ CanceledCall(1)
    \/ \E m \in mirrors : MirrorReserve(m)

SpecCancel == Init /\ [][NextCancel]_vars

\* request r was cancelled while it was reserving, and has returned
CancelledWhileReserving(r) == Done(r) /\ req[r].ctx = "reserve"

\* C27: a request cancelled while it was reserving returns an error and
\* leaves its order row FAILED
C27_CancelledOrderIsFailed ==
    \A r \in Reqs :
        CancelledWhileReserving(r)
            => /\ req[r].resp.kind = "err"
               /\ orders[req[r].oid].status = "FAILED"

\* the quantity of product p that request r had reserved in the cache before
\* item i
ReservedBefore(r, p) ==
    IF \E n \in 1..(req[r].i - 1) : req[r].items[n].product = p
    THEN req[r].items[CHOOSE n \in 1..(req[r].i - 1) : req[r].items[n].product = p].qty
    ELSE 0

\* C28: the mirror goroutine of a reservation is not stopped by the
\* cancellation of the request: once the goroutines of a request cancelled
\* while reserving have run, the inventory rows hold every reservation the
\* cache had granted to it
C28_MirrorOutlivesRequest ==
    \A r \in Reqs :
        (CancelledWhileReserving(r) /\ mirrors = {})
            => \A p \in Products :
                  inv[p] = [available |-> stock0[p] - ReservedBefore(r, p),
                            reserved  |-> ReservedBefore(r, p)]

C28_Witness ==
    /\ CancelledWhileReserving(1) /\ mirrors = {}
    /\ req[1].i = 2
    /\ \E p \in Products : inv[p].reserved = 1 /\ ReservedBefore(1, p) = 1

\* ------------------------------------------------------------------ concurrent RESERVE
\* Concurrent ReserveStock calls on a reachable Redis, with the mirror
\* goroutines they start
NextCache ==
    \/ \E r \in Reqs, p \in Products, q \in Qtys : CallReserveStock(r, p, q)
    \/ \E r \in Reqs : ICReserveStock(r)
    \/ \E m \in mirrors : MirrorReserve(m)

SpecCache == Init /\ [][NextCache]_vars

\* the step in which the script of call r runs: with available >= q it
\* subtracts q from available, adds q to reserved and the call returns
\* ok = true; otherwise the hash is unchanged and the call returns ok = false
ScriptStep(r) ==
    LET p == ICItem(r).product
        q == ICItem(r).qty
    IN  /\ \A x \in Products \ {p} : cache'[x] = cache[x]
        /\ IF cache[p].available >= q
           THEN /\ cache'[p] = [available |-> cache[p].available - q,
                                reserved  |-> cache[p].reserved + q]
                /\ req'[r].resp = ICResult(TRUE, "")
           ELSE /\ cache'[p] = cache[p]
                /\ req'[r].resp = ICResult(FALSE, "")

\* C29: every RESERVE is one step that either moves q from available to
\* reserved and returns 1, when available >= q, or changes nothing and
\* returns 0; whatever the interleaving of concurrent calls, available is
\* never negative and the calls that returned 1 sum to the quantity moved
C29_ReserveIsAtomic ==
    /\ [](\A p \in Products :
            /\ cache[p].available >= 0
            /\ cache[p] = [available |-> stock0[p] - SumQty(ReservedCalls(p)),
                           reserved  |-> SumQty(ReservedCalls(p))])
    /\ [][\A r \in Reqs :
            (req[r].pc = "icReserve" /\ req'[r].pc # "icReserve") => ScriptStep(r)]_vars

C29_Witness ==
    /\ req[1].pc = "icReserved" /\ req[2].pc = "done"
    /\ req[2].resp = ICResult(FALSE, "")
    /\ ICItem(1).product = ICItem(2).product
    /\ req[1].before = req[2].before
    /\ cache[ICItem(1).product].available = 0

\* ------------------------------------------------------------------ one store decides
\* ReserveStock of call r has returned, and neither ReleaseStock nor
\* CommitStock has begun
ReserveReturned(r) ==
    \/ req[r].pc = "icReserved"
    \/ req[r].pc = "done" /\ req[r].resp.status \notin {"released", "committed"}

\* the mirror goroutine of call r is still to run
MirrorPending(r) == \E m \in mirrors : m.r = r

\* C30: ReserveStock is decided by one store. The script returned 1: ok is
\* true, the hash holds the reservation and the row receives it from the
\* mirror goroutine. The script returned 0: ok is false and the row is not
\* touched. Only when the Redis call failed does ReserveStockTx decide:
\* the hash is untouched, no goroutine is started, and ok is true exactly
\* when the transaction committed the reservation to the row
C30_OneStoreDecides ==
    \A r \in Reqs :
        ReserveReturned(r) =>
            LET p  == ICItem(r).product
                q  == ICItem(r).qty
                c0 == req[r].before[1]
                d0 == req[r].before[2]
                ok == req[r].resp.kind = "ok"
            IN  IF redisErrs = 0
                THEN /\ req[r].resp.kind \in {"ok", "denied"}
                     /\ ok <=> c0.available >= q
                     /\ cache[p] = IF ok THEN ReserveUpdate(c0, q) ELSE c0
                     /\ MirrorPending(r) => ok
                     /\ inv[p] = IF ok /\ ~MirrorPending(r)
                                 THEN ReserveUpdate(d0, q) ELSE d0
                ELSE /\ cache[p] = c0
                     /\ mirrors = {}
                     /\ ok <=> d0.available >= q
                     /\ inv[p] = IF ok THEN ReserveUpdate(d0, q) ELSE d0

\* the fallback decided, and reserved on the row alone
C30_Witness ==
    \E r \in Reqs :
        /\ req[r].pc = "icReserved" /\ redisErrs > 0
        /\ cache[ICItem(r).product] = req[r].before[1]
        /\ inv[ICItem(r).product] = ReserveUpdate(req[r].before[2], ICItem(r).qty)

\* ------------------------------------------------------------------ COMMIT script
\* a caller of the Redis client's CommitStock for quantity q of product p
CallCommitStock(r, p, q) ==
    /\ req[r].pc = "idle"
    /\ IF r = 1 THEN TRUE ELSE req[r - 1].pc # "idle"
    /\ req' = [req EXCEPT ![r] = [@ EXCEPT !.pc = "icCommit", !.i = 1,
                                           !.items = <<Item(p, q)>>,
                                           !.before = Snapshot(p)]]
    /\ UNCHANGED <<cache, inv, stock0, kafka, main, orders, orderItems, ledger,
                   topic, mirrors, events, hnd, redisErrs, applied>>

\* Client.CommitStock: commit_stock.lua runs on the hash; j keeps the
\* script's return value
ClientCommitStock(r) ==
    /\ req[r].pc = "icCommit"
    /\ LET res == LuaCommit(cache[ICItem(r).product], ICItem(r).qty)
       IN  /\ cache' = [cache EXCEPT ![ICItem(r).product] = res.h]
           /\ req' = [req EXCEPT ![r].pc = "done", ![r].j = res.ret,
                                 ![r].resp = Respond("ok", 0, "commit_script")]
    /\ UNCHANGED <<inv, stock0, kafka, main, orders, orderItems, ledger, topic,
                   mirrors, events, hnd, redisErrs, applied>>

\* Concurrent COMMIT script calls on hashes that hold any reserved quantity
NextCommit ==
    \/ \E r \in Reqs, p \in Products, q \in Qtys : CallCommitStock(r, p, q)
    \/ \E r \in Reqs : ClientCommitStock(r)

SpecCommit == InitOps /\ [][NextCommit]_vars

\* C31: the COMMIT script subtracts q from reserved and returns 1 when
\* reserved >= q; when reserved < q it returns 0 and leaves the hash as it
\* was; available is never changed
C31_CommitScript ==
    [][\A r \in Reqs :
         (req[r].pc = "icCommit" /\ req'[r].pc = "done") =>
            LET p == ICItem(r).product
                q == ICItem(r).qty
            IN  /\ \A x \in Products \ {p} : cache'[x] = cache[x]
                /\ IF cache[p].reserved >= q
                   THEN /\ cache'[p] = [available |-> cache[p].available,
                                        reserved  |-> cache[p].reserved - q]
                        /\ req'[r].j = 1
                   ELSE /\ cache'[p] = cache[p]
                        /\ req'[r].j = 0]_vars

\* a COMMIT refused: less was reserved than asked for
C31_Witness ==
    \E r \in Reqs :
        /\ req[r].pc = "done" /\ req[r].resp.status = "commit_script"
        /\ req[r].j = 0
        /\ req[r].before[1].reserved < ICItem(r).qty
        /\ cache[ICItem(r).product] = req[r].before[1]

\* ------------------------------------------------------------------ order of the handler's steps
\* handler execution g has returned after applying an event to order o (it
\* was not stopped by the ledger check)
Effectful(g, o) == hnd[g].pc = "done" /\ hnd[g].i >= 1 /\ HOrder(g) = o

\* the number of Commit / Release calls made for item n of its order by
\* execution h itself
OwnCalls(h, n) ==
    applied[HOrder(h)][n] - Cardinality({g \in Handlers : Effectful(g, HOrder(h))})

\* C32: a handler execution sets PAID before any Commit, has attempted
\* Commit (Release) for every item before it sets CONFIRMED (CANCELLED),
\* and inserts into the ledger last
C32_HandlerStepOrder ==
    \A h \in Handlers :
        InFlight(h) =>
            LET o  == HOrder(h)
                N  == 1..Len(orderItems[o])
                pc == hnd[h].pc
            IN  /\ ledger[hnd[h].ev] = 0
                /\ pc = "paid" => \A n \in N : OwnCalls(h, n) = 0
                /\ pc \in {"commitCache", "commitDB", "confirm"}
                      => orders[o].status = "PAID"
                /\ pc \in {"commitCache", "commitDB", "relCache", "relDB"}
                      => \A n \in N : OwnCalls(h, n) = IF n < hnd[h].i THEN 1 ELSE 0
                /\ pc \in {"confirm", "cancel", "mark"}
                      => \A n \in N : OwnCalls(h, n) = 1
                /\ pc = "mark"
                      => orders[o].status =
                            IF events[hnd[h].ev].type = "PaymentSuccess"
                            THEN "CONFIRMED" ELSE "CANCELLED"

\* a handler about to insert into the ledger for an order of two items
C32_Witness ==
    \E h \in Handlers :
        /\ hnd[h].pc = "mark"
        /\ Len(orderItems[HOrder(h)]) = 2
        /\ \A n \in 1..2 : applied[HOrder(h)][n] = 1

\* ------------------------------------------------------------------ failing commits
\* One order and the sequential consumer, with CommitStock calls that may
\* fail in Redis or in the store
NextCommitFault ==
    \/ NextSeq
    \/ \E h \in Handlers : CommitRedisError(h)
    \/ \E h \in Handlers : CommitStoreError(h)

SpecCommitFault == Init /\ [][NextCommitFault]_vars

\* event e is the only payment result published
OnlyEvent(e) == \A d \in EventIds \ {e} : events[d] = NoEvent

\* C33: whatever CommitStock calls failed, an execution of
\* HandlePaymentSuccess that passed the ledger check goes through every
\* item, leaves the order CONFIRMED, inserts the event into the ledger and
\* returns nil
C33_CommitErrorNotFatal ==
    \A h \in Handlers :
        (hnd[h].pc = "done" /\ hnd[h].i >= 1 /\ OnlyEvent(hnd[h].ev)
           /\ events[hnd[h].ev].type = "PaymentSuccess")
            => /\ hnd[h].ret = "ok"
               /\ hnd[h].i = Len(orderItems[HOrder(h)])
               /\ orders[HOrder(h)].status = "CONFIRMED"
               /\ ledger[hnd[h].ev] = 1

\* the commit of the first item failed in the store, the second was made
C33_Witness ==
    \E h \in Handlers :
        /\ hnd[h].pc = "done" /\ hnd[h].ret = "ok"
        /\ events[hnd[h].ev].type = "PaymentSuccess"
        /\ Len(orderItems[HOrder(h)]) = 2
        /\ applied[HOrder(h)] = <<0, 1>>
        /\ orders[HOrder(h)].status = "CONFIRMED"

\* ------------------------------------------------------------------ OrderReserved
\* OrderReserved was published for order o
ReservedPublished(o) == \E n \in 1..Len(topic[o]) : topic[o][n] = "OrderReserved"

\* no payment result exists yet, so no handler has touched the inventory
NoPaymentYet == \A e \in EventIds : events[e] = NoEvent

ReachedConfirmed(o) ==
    \E h \in Handlers :
        /\ hnd[h].pc = "done" /\ hnd[h].i >= 1
        /\ events[hnd[h].ev].type = "PaymentSuccess"
        /\ HOrder(h) = o

RECURSIVE ConfirmedQty(_, _)
\* the quantity of product p in the orders 1..n that reached CONFIRMED
ConfirmedQty(p, n) ==
    IF n = 0 THEN 0
    ELSE (IF ReachedConfirmed(n) THEN QtyOf(n, p) ELSE 0) + ConfirmedQty(p, n - 1)

\* C35: with nothing in flight, available + reserved + the quantity in
\* confirmed orders is the seeded stock, in the hash and in the row
C35_StockConserved ==
    Quiet =>
        \A p \in Products :
            /\ cache[p].available + cache[p].reserved + ConfirmedQty(p, Len(orders))
                  = stock0[p]
            /\ inv[p].available + inv[p].reserved + ConfirmedQty(p, Len(orders))
                  = stock0[p]

\* ------------------------------------------------------------------ hash and row
\* C36: with no request, handler or mirror goroutine in flight, the hash of
\* every product equals its inventory row
C36_CacheEqualsRow ==
    Quiet => \A p \in Products : cache[p] = inv[p]

\* ------------------------------------------------------------------ once per order
\* C37: over all payment results of one order, whatever their event ids, the
\* handlers apply Commit or Release to each item at most once in total
C37_ConsumedAtMostOnce ==
    \A o \in 1..Len(applied) : \A n \in 1..Len(applied[o]) : applied[o][n] <= 1

\* ------------------------------------------------------------------ progress
\* CreateOrder, lines 309-311: PublishOrderReserved returns an error; it is
\* logged and the response is (order_id, RESERVED) all the same
PublishOrderReservedError(r) ==
    /\ req[r].pc = "pubReserved"
    /\ req' = [req EXCEPT ![r].pc = "done",
                          ![r].resp = Respond("ok", req[r].oid, "RESERVED")]
    /\ UNCHANGED <<cache, inv, stock0, kafka, main, orders, orderItems, ledger, topic,
                   mirrors, events, hnd, redisErrs, applied>>

\* One order, stores that answer every call; the broker may refuse the
\* OrderReserved message
NextLive ==
    \/ NextSeq
    \/ PublishOrderReservedError(1)

\* The goroutine of the request, the mirror goroutines, the payment worker
\* and the consumer loop with the handler it calls all keep running
Fairness ==
    /\ WF_vars(SubmitStep(1))
    /\ WF_vars(\E m \in mirrors : MirrorReserve(m))
    /\ WF_vars(\E e \in EventIds, o \in OrderIds,
                  type \in {"PaymentSuccess", "PaymentFailed"} : ProcessPayment(e, o, type))
    /\ WF_vars(\E h \in Handlers, e \in EventIds : ConsumeNext(h, e))
    /\ WF_vars(\E h \in Handlers : HandlerStep(h))

SpecLive == Init /\ [][NextLive]_vars /\ Fairness

\* the order of request r, answered RESERVED, is CONFIRMED or CANCELLED
Ended(r) ==
    /\ Reserved(r)
    /\ orders[req[r].resp.oid].status \in {"CONFIRMED", "CANCELLED"}

\* C38: every order for which SubmitOrder returned RESERVED eventually
\* becomes CONFIRMED or CANCELLED, under fair scheduling, stores that answer
\* and a payment worker that answers every OrderReserved it receives
C38_ReservedOrderEnds ==
    \A r \in Reqs : Reserved(r) ~> Ended(r)

\* ------------------------------------------------------------------ status at return
\* C39: when SubmitOrder has returned, the order row it created is RESERVED
\* if the call succeeded and FAILED if it returned an error, never CREATED
\* (read before any payment result exists)
C39_NeverLeftCreated ==
    \A r \in Reqs :
        (Done(r) /\ req[r].oid # 0 /\ NoPaymentYet) =>
            orders[req[r].oid].status =
                IF req[r].resp.kind = "ok" THEN "RESERVED" ELSE "FAILED"

\* ------------------------------------------------------------------ ledger at return
\* One order whose handlers may meet a store that refuses the ledger insert
NextLedgerFault ==
    \/ NextSeq
    \/ \E h \in Handlers : MarkProcessedError(h)

SpecLedgerFault == Init /\ [][NextLedgerFault]_vars

\* C40: a handler execution that applied the effects of its event and
\* returned nil (the consumer then commits the message) has its event id in
\* the processed_events ledger
C40_ReturnedMeansRecorded ==
    \A h \in Handlers :
        (hnd[h].pc = "done" /\ hnd[h].ret = "ok" /\ hnd[h].i >= 1) =>
            IsEventProcessed(ledger, hnd[h].ev)

====
